---- MODULE Spec2Model ----
(***************************************************************************)
(* A model of the aggregation-pipeline rewrite engine of                   *)
(* src/mongo/db/pipeline/document_source.cpp and                           *)
(* document_source_single_document_transformation.cpp.                     *)
(*                                                                         *)
(* A field path is a non-empty sequence of segment names: "a.b" is         *)
(* <<"a", "b">>.  A stage sequence (Pipeline::SourceContainer) is a        *)
(* sequence of stage records; a position (iterator) is an index, and the   *)
(* end position of a sequence c is Len(c) + 1.                             *)
(***************************************************************************)
EXTENDS Integers, Sequences, FiniteSets

\* Longest stage sequence handed to the optimizer.
MaxStages == 3

\* Longest field path asked about, and most rename entries of a descriptor.
MaxPathLen == 2
MaxRenames == 2

\* Most parts of a sort pattern, and most new names one path is mapped to.
MaxSortParts == 2
MaxNewNames == 2
MaxVersion == 2
MaxArrayLen == 3
MaxMembers == 3
MaxModes == 2

(***************************************************************************)
(* Field paths (FieldPath).  Its code is not among the sources; the        *)
(* helpers follow the specification's data model and, for getSubpath, the  *)
(* convention its caller documents at document_source.cpp:339-341 ("i is   *)
(* the index of the last element of the prefix").                          *)
(***************************************************************************)
getPathLength(p) == Len(p)

\* p is a segment-wise prefix of q, equality included.
isPrefixOf(p, q) == Len(p) <= Len(q) /\ SubSeq(q, 1, Len(p)) = p

\* Two paths overlap iff one is a prefix of the other (spec, data model).
PathsOverlap(p, q) == isPrefixOf(p, q) \/ isPrefixOf(q, p)

\* getSubpath(n) is the prefix whose last element has index n (counted from 0),
\* n + 1 elements in all; it requires such an element to exist.
getSubpathDefined(p, n) == n + 1 <= Len(p)

getSubpath(p, n) == SubSeq(p, 1, n + 1)

\* The elements of p after its first n.
getSuffix(p, n) == SubSeq(p, n + 1, Len(p))

concat(p, tail) == p \o tail

(***************************************************************************)
(* Path-modification descriptors (GetModPathsReturn): a type tag, a set of *)
(* paths and a set of renames <<newName, oldName>>, keyed by the new name. *)
(***************************************************************************)
kNotSupported == "kNotSupported"
kAllPaths == "kAllPaths"
kFiniteSet == "kFiniteSet"
kAllExcept == "kAllExcept"

ModPaths(type, paths, renames) == [type |-> type, paths |-> paths, renames |-> renames]

pA == <<"a">>
pB == <<"b">>
pD == <<"d">>
pAC == <<"a", "c">>
pId == <<"_id">>

(***************************************************************************)
(* Stages.  Every stage carries its constraints and its getModifiedPaths() *)
(* result; a match stage carries its predicates (a conjunction, each       *)
(* predicate on one path, possibly an $exists predicate) and whether it is *)
(* a text query; a group stage carries the number of its id fields; a      *)
(* sample stage carries its size.                                          *)
(***************************************************************************)
Pred(path, exists) == [path |-> path, exists |-> exists]

Stage(kind, csm, css, mod, idFields, preds, isText, size) ==
    [kind |-> kind,
     canSwapWithMatch |-> csm,
     canSwapWithSkippingOrLimitingStage |-> css,
     mod |-> mod,
     idFields |-> idFields,
     preds |-> preds,
     isText |-> isText,
     size |-> size]

NoMods == ModPaths(kFiniteSet, {}, {})

Transform(csm, css, mod) == Stage("transform", csm, css, mod, 0, {}, FALSE, 0)
Group(idFields, mod) == Stage("group", TRUE, FALSE, mod, idFields, {}, FALSE, 0)
\* A match stage built from a set of predicates (DocumentSourceMatch).
Match(preds) == Stage("match", FALSE, FALSE, NoMods, 0, preds, FALSE, 0)
TextMatch(preds) == Stage("match", FALSE, FALSE, NoMods, 0, preds, TRUE, 0)
Sample(size) == Stage("sample", FALSE, FALSE, NoMods, 0, {}, FALSE, size)
Skip == Stage("skip", FALSE, FALSE, NoMods, 0, {}, FALSE, 0)

\* The stages a sequence is built from.  Match, sample and skip stages do not
\* themselves swap with a following match or sample.
TransformStages ==
    { Transform(TRUE, TRUE, ModPaths(kFiniteSet, {pA}, {})),
      Transform(TRUE, TRUE, ModPaths(kFiniteSet, {}, {<<pB, pA>>})),
      Transform(TRUE, TRUE, ModPaths(kAllExcept, {pA}, {})),
      Transform(TRUE, TRUE, ModPaths(kNotSupported, {}, {})),
      Transform(TRUE, FALSE, ModPaths(kAllPaths, {}, {})),
      Transform(FALSE, TRUE, NoMods) }

GroupStages == { Group(1, NoMods), Group(2, NoMods) }

MatchStages ==
    { Match({Pred(pAC, FALSE), Pred(pD, FALSE)}),
      Match({Pred(pD, FALSE)}),
      Match({Pred(pB, FALSE)}),
      Match({Pred(pId, TRUE)}),
      TextMatch({Pred(pD, FALSE)}) }

OtherStages == { Sample(1), Sample(2), Skip }

StageSet == TransformStages \cup GroupStages \cup MatchStages \cup OtherStages

Containers == UNION { [1..n -> StageSet] : n \in 1..MaxStages }

\* fCall, fRes and fPc hold one call of a function with no state of its own: its
\* name and arguments, its result, and whether it has returned.
VARIABLES container, itr, input, last, wMod, wOld, wRes, wPc, fCall, fRes, fPc

vars == <<container, itr, input, last, wMod, wOld, wRes, wPc, fCall, fRes, fPc>>

callVars == <<fCall, fRes, fPc>>

engineVars == <<container, itr, input, last>>

pathVars == <<wMod, wOld, wRes, wPc>>

(***************************************************************************)
(* Sequence edits of std::list.                                            *)
(***************************************************************************)
\* container->erase(position i)
Erase(c, i) == SubSeq(c, 1, i - 1) \o SubSeq(c, i + 1, Len(c))

\* container->insert(position i, s): s is placed before the element at i
Insert(c, i, s) == SubSeq(c, 1, i - 1) \o <<s>> \o SubSeq(c, i, Len(c))

End(c) == Len(c) + 1

(***************************************************************************)
(* Splitting a match by the paths a stage modifies.                        *)
(***************************************************************************)
\* DocumentSourceMatch::getDependencies: the paths the predicates read.
getDependencies(match) == { p.path : p \in match.preds }

\* semantic_analysis::extractModifiedDependencies: the dependencies that no
\* preserved path covers.
extractModifiedDependencies(deps, preservedPaths) ==
    { d \in deps : ~ \E k \in preservedPaths : isPrefixOf(k, d) }

\* expression::hasExistencePredicateOnPath
hasExistencePredicateOnPath(match, path) ==
    \E p \in match.preds : p.exists /\ p.path = path

\* DocumentSourceMatch::splitSourceBy: the independent part holds the predicates
\* that read no path affected by the stage; the dependent part holds the rest.
\* A part with no predicate is null, written as the empty set.
splitSourceBy(match, modifiedPaths, renames) ==
    LET affected == modifiedPaths \cup { r[1] : r \in renames }
        indep == { p \in match.preds : ~ \E m \in affected : PathsOverlap(p.path, m) }
    IN  [first |-> indep, second |-> match.preds \ indep]

\* As splitMatchByModifiedFields, but the FiniteSet case splits by an empty set of
\* modified paths (the set was moved from before use).
splitMatchByModifiedFieldsMovedFrom(match, modifiedPathsRet) ==
    CASE modifiedPathsRet.type \in {kNotSupported, kAllPaths} ->
            [first |-> {}, second |-> match.preds]
      [] modifiedPathsRet.type = kFiniteSet ->
            splitSourceBy(match, {}, modifiedPathsRet.renames)
      [] modifiedPathsRet.type = kAllExcept ->
            LET preservedPaths ==
                    modifiedPathsRet.paths \cup { r[1] : r \in modifiedPathsRet.renames }
                modifiedPaths ==
                    extractModifiedDependencies(getDependencies(match), preservedPaths)
            IN  splitSourceBy(match, modifiedPaths, modifiedPathsRet.renames)

\* As splitMatchByModifiedFields, but a stage that gives no information is
\* treated as one that modifies the paths it lists.
splitMatchByModifiedFieldsTrusting(match, modifiedPathsRet) ==
    CASE modifiedPathsRet.type \in {kNotSupported, kAllPaths, kFiniteSet} ->
            splitSourceBy(match, modifiedPathsRet.paths, modifiedPathsRet.renames)
      [] modifiedPathsRet.type = kAllExcept ->
            LET preservedPaths ==
                    modifiedPathsRet.paths \cup { r[1] : r \in modifiedPathsRet.renames }
                modifiedPaths ==
                    extractModifiedDependencies(getDependencies(match), preservedPaths)
            IN  splitSourceBy(match, modifiedPaths, modifiedPathsRet.renames)

splitMatchByModifiedFields(match, modifiedPathsRet) ==
    CASE modifiedPathsRet.type = kNotSupported ->
            [first |-> {}, second |-> match.preds]
      [] modifiedPathsRet.type = kAllPaths ->
            [first |-> {}, second |-> match.preds]
      [] modifiedPathsRet.type = kFiniteSet ->
            splitSourceBy(match, modifiedPathsRet.paths, modifiedPathsRet.renames)
      [] modifiedPathsRet.type = kAllExcept ->
            LET preservedPaths ==
                    modifiedPathsRet.paths \cup { r[1] : r \in modifiedPathsRet.renames }
                modifiedPaths ==
                    extractModifiedDependencies(getDependencies(match), preservedPaths)
            IN  splitSourceBy(match, modifiedPaths, modifiedPathsRet.renames)

\* As groupMatchSwapVerified, but the $exists check is skipped.
groupMatchSwapVerifiedNoCheck(nextMatch, thisGroup) == TRUE

groupMatchSwapVerified(nextMatch, thisGroup) ==
    IF thisGroup.idFields # 1
    THEN TRUE
    ELSE ~ hasExistencePredicateOnPath(nextMatch, pId)

(***************************************************************************)
(* The two engine-level rewrites.  Each returns whether it fired and the   *)
(* resulting sequence.  Both are called with a stage following position i. *)
(***************************************************************************)
\* As pushMatchBefore, but the dependent part is inserted before the current stage.
pushMatchBeforeDependentFirst(c, i) ==
    LET this == c[i]
        next == c[i + 1]
    IN  IF /\ this.canSwapWithMatch
           /\ next.kind = "match"
           /\ ~ next.isText
           /\ (this.kind # "group" \/ groupMatchSwapVerified(next, this))
        THEN LET splitMatch == splitMatchByModifiedFields(next, this.mod)
                 erased == Erase(c, i + 1)
                 withFirst == Insert(erased, i, Match(splitMatch.first))
                 withSecond == IF splitMatch.second # {}
                               THEN Insert(withFirst, i + 1, Match(splitMatch.second))
                               ELSE withFirst
             IN  IF splitMatch.first # {}
                 THEN [pushed |-> TRUE, c |-> withSecond]
                 ELSE [pushed |-> FALSE, c |-> c]
        ELSE [pushed |-> FALSE, c |-> c]

\* As pushMatchBefore, but a text query is not excluded.
pushMatchBeforeTextToo(c, i) ==
    LET this == c[i]
        next == c[i + 1]
    IN  IF /\ this.canSwapWithMatch
           /\ next.kind = "match"
           /\ (this.kind # "group" \/ groupMatchSwapVerified(next, this))
        THEN LET splitMatch == splitMatchByModifiedFields(next, this.mod)
                 erased == Erase(c, i + 1)
                 withFirst == Insert(erased, i, Match(splitMatch.first))
                 withSecond == IF splitMatch.second # {}
                               THEN Insert(withFirst, i + 2, Match(splitMatch.second))
                               ELSE withFirst
             IN  IF splitMatch.first # {}
                 THEN [pushed |-> TRUE, c |-> withSecond]
                 ELSE [pushed |-> FALSE, c |-> c]
        ELSE [pushed |-> FALSE, c |-> c]

\* As pushMatchBefore, but when nothing can be moved the part that stays is
\* inserted after the current stage all the same.
pushMatchBeforeInsertsSecond(c, i) ==
    LET this == c[i]
        next == c[i + 1]
    IN  IF /\ this.canSwapWithMatch
           /\ next.kind = "match"
           /\ ~ next.isText
           /\ (this.kind # "group" \/ groupMatchSwapVerified(next, this))
        THEN LET splitMatch == splitMatchByModifiedFields(next, this.mod)
                 erased == Erase(c, i + 1)
                 withFirst == Insert(erased, i, Match(splitMatch.first))
                 withSecond == IF splitMatch.second # {}
                               THEN Insert(withFirst, i + 2, Match(splitMatch.second))
                               ELSE withFirst
             IN  IF splitMatch.first # {}
                 THEN [pushed |-> TRUE, c |-> withSecond]
                 ELSE [pushed |-> FALSE, c |-> Insert(c, i + 1, Match(splitMatch.second))]
        ELSE [pushed |-> FALSE, c |-> c]

pushMatchBefore(c, i) ==
    LET this == c[i]
        next == c[i + 1]
    IN  IF /\ this.canSwapWithMatch
           /\ next.kind = "match"
           /\ ~ next.isText
           /\ (this.kind # "group" \/ groupMatchSwapVerified(next, this))
        THEN LET splitMatch == splitMatchByModifiedFields(next, this.mod)
                 erased == Erase(c, i + 1)
                 withFirst == Insert(erased, i, Match(splitMatch.first))
                 \* the current stage is now at i + 1
                 withSecond == IF splitMatch.second # {}
                               THEN Insert(withFirst, i + 2, Match(splitMatch.second))
                               ELSE withFirst
             IN  IF splitMatch.first # {}
                 THEN [pushed |-> TRUE, c |-> withSecond]
                 ELSE [pushed |-> FALSE, c |-> c]
        ELSE [pushed |-> FALSE, c |-> c]

\* As pushSampleBefore, but the erase hits the current stage, not the old sample.
pushSampleBeforeErasesThis(c, i) ==
    LET this == c[i]
        next == c[i + 1]
    IN  IF this.canSwapWithSkippingOrLimitingStage /\ next.kind = "sample"
        THEN [pushed |-> TRUE, c |-> Erase(Insert(c, i, next), i + 1)]
        ELSE [pushed |-> FALSE, c |-> c]

pushSampleBefore(c, i) ==
    LET this == c[i]
        next == c[i + 1]
    IN  IF this.canSwapWithSkippingOrLimitingStage /\ next.kind = "sample"
        THEN \* insert before the current stage, then erase the stage after it
             [pushed |-> TRUE, c |-> Erase(Insert(c, i, next), i + 2)]
        ELSE [pushed |-> FALSE, c |-> c]

(***************************************************************************)
(* The stage-specific hook.                                                *)
(***************************************************************************)
\* As transformDoOptimizeAt, but the swap is made with a following transformation
\* stage too, not only with a skip stage.
transformDoOptimizeAtSwapsTransforms(c, i) ==
    IF i + 1 = End(c)
    THEN [c |-> c, ret |-> End(c)]
    ELSE IF c[i + 1].kind \in {"skip", "transform"}
         THEN [c |-> [c EXCEPT ![i] = c[i + 1], ![i + 1] = c[i]],
               ret |-> IF i = 1 THEN i ELSE i - 1]
         ELSE [c |-> c, ret |-> i + 1]

\* DocumentSourceSingleDocumentTransformation::doOptimizeAt
\* As transformDoOptimizeAt, but after the swap the next position is returned.
transformDoOptimizeAtGoesOn(c, i) ==
    IF i + 1 = End(c)
    THEN [c |-> c, ret |-> End(c)]
    ELSE IF c[i + 1].kind = "skip"
         THEN [c |-> [c EXCEPT ![i] = c[i + 1], ![i + 1] = c[i]], ret |-> i + 1]
         ELSE [c |-> c, ret |-> i + 1]

transformDoOptimizeAt(c, i) ==
    IF i + 1 = End(c)
    THEN [c |-> c, ret |-> End(c)]
    ELSE IF c[i + 1].kind = "skip"
         THEN [c |-> [c EXCEPT ![i] = c[i + 1], ![i + 1] = c[i]],
               ret |-> IF i = 1 THEN i ELSE i - 1]
         ELSE [c |-> c, ret |-> i + 1]

\* DocumentSource::doOptimizeAt, the hook of a stage that has no rewrite of its own.
defaultDoOptimizeAt(c, i) == [c |-> c, ret |-> i + 1]

doOptimizeAt(c, i) ==
    IF c[i].kind = "transform" THEN transformDoOptimizeAt(c, i) ELSE defaultDoOptimizeAt(c, i)

(***************************************************************************)
(* DocumentSource::optimizeAt.  pushSampleBefore is attempted only when    *)
(* pushMatchBefore returned false.                                         *)
(***************************************************************************)
\* As retAfterPush, but only one step back.
retAfterPushOneBack(i) == i

\* As retAfterPush, but two steps back whether or not the pushed stage is first.
retAfterPushTwoBack(i) == i - 1

\* The position reported after a rewrite: the current stage is now at i + 1.
retAfterPush(i) ==
    LET cur == i + 1
        prev == cur - 1
    IN  IF prev = 1 THEN prev ELSE prev - 1

\* As optimizeAt, but without the call of the hook: the next position is returned.
optimizeAtSkipsHook(c, i) ==
    LET pm == IF i + 1 # End(c) THEN pushMatchBefore(c, i) ELSE [pushed |-> FALSE, c |-> c]
        ps == IF i + 1 # End(c) /\ ~ pm.pushed
              THEN pushSampleBefore(pm.c, i)
              ELSE [pushed |-> FALSE, c |-> pm.c]
    IN  IF pm.pushed
        THEN [c |-> pm.c, ret |-> retAfterPush(i), pushedMatch |-> TRUE,
              pushedSample |-> FALSE, attempted |-> pm.c]
        ELSE IF ps.pushed
             THEN [c |-> ps.c, ret |-> retAfterPush(i), pushedMatch |-> FALSE,
                   pushedSample |-> TRUE, attempted |-> ps.c]
             ELSE [c |-> ps.c, ret |-> i + 1, pushedMatch |-> FALSE,
                   pushedSample |-> FALSE, attempted |-> ps.c]

\* Each step works on the container as the step before left it; 'attempted' is
\* the container after the attempts to push a $match or a $sample.
optimizeAt(c, i) ==
    LET pm == IF i + 1 # End(c) THEN pushMatchBefore(c, i) ELSE [pushed |-> FALSE, c |-> c]
        ps == IF i + 1 # End(c) /\ ~ pm.pushed
              THEN pushSampleBefore(pm.c, i)
              ELSE [pushed |-> FALSE, c |-> pm.c]
        hook == doOptimizeAt(ps.c, i)
    IN  IF pm.pushed
        THEN [c |-> pm.c, ret |-> retAfterPush(i), pushedMatch |-> TRUE,
              pushedSample |-> FALSE, attempted |-> pm.c]
        ELSE IF ps.pushed
             THEN [c |-> ps.c, ret |-> retAfterPush(i), pushedMatch |-> FALSE,
                   pushedSample |-> TRUE, attempted |-> ps.c]
             ELSE [c |-> hook.c, ret |-> hook.ret, pushedMatch |-> FALSE,
                   pushedSample |-> FALSE, attempted |-> ps.c]

(***************************************************************************)
(* The driver: starting at the first stage, call optimizeAt at the         *)
(* position the previous call returned, until the end position is reached. *)
(* 'input' keeps the sequence as handed over; 'last' records the most      *)
(* recent call: its position, the sequence before it and what it did.      *)
(***************************************************************************)
NoCall == [op |-> "none", pos |-> 0, before |-> <<>>, pushedMatch |-> FALSE,
           pushedSample |-> FALSE, ret |-> 0, attempted |-> <<>>]

NoResult == [aborted |-> FALSE, newNames |-> <<>>]

PathsIdle ==
    /\ wMod = NoMods
    /\ wOld = pA
    /\ wRes = NoResult
    /\ wPc = "idle"

CallsIdle ==
    /\ fCall = [fn |-> "none"]
    /\ fRes = [aborted |-> FALSE]
    /\ fPc = "idle"

Init ==
    /\ container \in Containers
    /\ input = container
    /\ itr = 1
    /\ last = NoCall
    /\ PathsIdle
    /\ CallsIdle

OptimizeStep ==
    /\ itr # End(container)
    /\ LET r == optimizeAt(container, itr)
       IN  /\ container' = r.c
           /\ itr' = r.ret
           /\ last' = [op |-> "optimizeAt", pos |-> itr, before |-> container,
                       pushedMatch |-> r.pushedMatch, pushedSample |-> r.pushedSample,
                       ret |-> r.ret, attempted |-> r.attempted]
    /\ UNCHANGED <<input, pathVars, callVars>>

Next == OptimizeStep

Spec == Init /\ [][Next]_vars

\* The driver is a loop that never yields: a call that is possible is made.
FairSpec == Spec /\ WF_vars(Next)

TypeOK ==
    /\ Len(container) >= 1
    /\ itr \in 1..End(container)

(***************************************************************************)
(* GetModPathsReturn::whatHappenedTo.                                      *)
(*                                                                         *)
(* A failed invariant() ends the call; the result records whether that     *)
(* happened ('aborted') and otherwise the list of new names.               *)
(***************************************************************************)
Min(m, n) == IF m <= n THEN m ELSE n

\* overlaps(x, y): whether the two getSubpath calls are defined, and the comparison.
overlaps(x, y) ==
    LET numElements == Min(getPathLength(x), getPathLength(y))
    IN  IF getSubpathDefined(x, numElements) /\ getSubpathDefined(y, numElements)
        THEN [ok |-> TRUE, value |-> getSubpath(x, numElements) = getSubpath(y, numElements)]
        ELSE [ok |-> FALSE, value |-> FALSE]

\* One of the two loops of the kFiniteSet case over the overwritten paths, from
\* the k-th on: "abort" when a call of overlaps fails, "overlap" at the first
\* overlapping path (break), "none" when the loop runs out.
RECURSIVE scanOverwritten(_, _, _)
scanOverwritten(oldName, overwritten, k) ==
    IF k > Len(overwritten)
    THEN "none"
    ELSE LET o == overlaps(oldName, overwritten[k])
         IN  IF ~ o.ok THEN "abort"
             ELSE IF o.value THEN "overlap"
             ELSE scanOverwritten(oldName, overwritten, k + 1)

\* The kAllExcept case: some prefix of oldName, oldName included, is in 'paths'.
prefixPreserved(oldName, paths) ==
    \E i \in 0..(getPathLength(oldName) - 1) : getSubpath(oldName, i) \in paths

\* The loop over 'renames', from the k-th entry on: the names it appends.
RECURSIVE renamedNames(_, _, _)
renamedNames(oldName, renameOrder, k) ==
    IF k > Len(renameOrder)
    THEN <<>>
    ELSE LET source == renameOrder[k][2]
             rest == renamedNames(oldName, renameOrder, k + 1)
         IN  IF isPrefixOf(source, oldName)
             THEN <<concat(source, getSuffix(oldName, getPathLength(source)))>> \o rest
             ELSE rest

\* As whatHappenedTo, but the renames are looked at whatever the type is.
whatHappenedToAnyType(mod, oldName, pathOrder, renameOrder) ==
    LET targets == [k \in 1..Len(renameOrder) |-> renameOrder[k][1]]
        byPaths == scanOverwritten(oldName, pathOrder, 1)
        byRenames == scanOverwritten(oldName, targets, 1)
        aborted == mod.type = kFiniteSet /\ (byPaths = "abort" \/ byRenames = "abort")
        preserved ==
            \/ mod.type = kFiniteSet /\ byPaths = "none" /\ byRenames = "none"
            \/ mod.type = kAllExcept /\ prefixPreserved(oldName, mod.paths)
        kept == IF preserved THEN <<oldName>> ELSE <<>>
        renamed == renamedNames(oldName, renameOrder, 1)
    IN  IF aborted
        THEN [aborted |-> TRUE, newNames |-> <<>>]
        ELSE [aborted |-> FALSE, newNames |-> kept \o renamed]

\* pathOrder lists mod.paths and renameOrder lists mod.renames in the order the
\* containers are iterated.
whatHappenedTo(mod, oldName, pathOrder, renameOrder) ==
    LET targets == [k \in 1..Len(renameOrder) |-> renameOrder[k][1]]
        byPaths == scanOverwritten(oldName, pathOrder, 1)
        byRenames == scanOverwritten(oldName, targets, 1)
        aborted == mod.type = kFiniteSet /\ (byPaths = "abort" \/ byRenames = "abort")
        preserved ==
            \/ mod.type = kFiniteSet /\ byPaths = "none" /\ byRenames = "none"
            \/ mod.type = kAllExcept /\ prefixPreserved(oldName, mod.paths)
        kept == IF preserved THEN <<oldName>> ELSE <<>>
        renamed == IF mod.type \in {kAllExcept, kFiniteSet}
                   THEN renamedNames(oldName, renameOrder, 1)
                   ELSE <<>>
    IN  IF aborted
        THEN [aborted |-> TRUE, newNames |-> <<>>]
        ELSE [aborted |-> FALSE, newNames |-> kept \o renamed]

(***************************************************************************)
(* Calls of whatHappenedTo on the descriptors and paths below.             *)
(***************************************************************************)
Segments == {"a", "b", "c", "x", "y", "z"}

FieldPaths == UNION { [1..n -> Segments] : n \in 1..MaxPathLen }

\* The paths a descriptor may list, in the order of std::set<std::string>.
SortedPaths == << <<"a">>, <<"a", "b">>, <<"x">> >>

inOrder(paths) == SelectSeq(SortedPaths, LAMBDA p : p \in paths)

RenamePairs ==
    { <<to, from>> : to \in {<<"b">>, <<"c">>, <<"x", "y">>},
                     from \in {<<"a">>, <<"a", "b">>} }

\* A new name appears at most once.
RenameSets ==
    { R \in SUBSET RenamePairs :
        /\ Cardinality(R) <= MaxRenames
        /\ \A r1, r2 \in R : r1[1] = r2[1] => r1 = r2 }

Descriptors ==
    { ModPaths(t, { SortedPaths[k] : k \in K }, R) :
        t \in {kNotSupported, kAllPaths, kFiniteSet, kAllExcept},
        K \in SUBSET (1..Len(SortedPaths)),
        R \in RenameSets }

\* The orders in which the entries of an unordered map can be visited.
Orderings(S) ==
    { f \in [1..Cardinality(S) -> S] : \A j, k \in 1..Cardinality(S) : f[j] = f[k] => j = k }

EngineIdle ==
    /\ container = <<>>
    /\ input = <<>>
    /\ itr = 1
    /\ last = NoCall

InitPaths ==
    /\ EngineIdle
    /\ CallsIdle
    /\ wMod \in Descriptors
    /\ wOld \in FieldPaths
    /\ wRes = NoResult
    /\ wPc = "call"

WhatHappenedTo ==
    /\ wPc = "call"
    /\ \E renameOrder \in Orderings(wMod.renames) :
           wRes' = whatHappenedTo(wMod, wOld, inOrder(wMod.paths), renameOrder)
    /\ wPc' = "done"
    /\ UNCHANGED <<wMod, wOld, engineVars, callVars>>

NextPaths == WhatHappenedTo

SpecPaths == InitPaths /\ [][NextPaths]_vars

(***************************************************************************)
(* Calls of overlaps on pairs of paths.                                    *)
(***************************************************************************)
InitOverlaps ==
    /\ EngineIdle
    /\ PathsIdle
    /\ fCall \in { [fn |-> "overlaps", x |-> x, y |-> y] : x \in FieldPaths, y \in FieldPaths }
    /\ fRes = [aborted |-> FALSE]
    /\ fPc = "call"

Overlaps ==
    /\ fPc = "call"
    /\ fCall.fn = "overlaps"
    /\ LET o == overlaps(fCall.x, fCall.y)
       IN  fRes' = [aborted |-> ~ o.ok, value |-> o.value]
    /\ fPc' = "done"
    /\ UNCHANGED <<fCall, engineVars, pathVars>>

NextOverlaps == Overlaps

SpecOverlaps == InitOverlaps /\ [][NextOverlaps]_vars

(***************************************************************************)
(* Sorts::rename.  A sort pattern is the sequence of the field paths of    *)
(* its parts; Sorts is a set of patterns; oldToNew maps a path to the list *)
(* of its new names.  The result records a failed invariant() as          *)
(* 'aborted'.                                                              *)
(***************************************************************************)
NoSorts == [aborted |-> FALSE, sorts |-> {}]

AbortedSorts == [aborted |-> TRUE, sorts |-> {}]

\* As renameLoop, but only the first renaming of a part is followed.
RECURSIVE renameLoopFirstOnly(_, _, _, _, _)
renameLoopFirstOnly(prefix, original, oldToNew, result, j) ==
    LET i == Len(prefix)
    IN  IF result.aborted
        THEN result
        ELSE IF i = Len(original)
        THEN [aborted |-> FALSE, sorts |-> result.sorts \cup {prefix}]
        ELSE IF original[i + 1] \notin DOMAIN oldToNew
        THEN AbortedSorts
        ELSE IF oldToNew[original[i + 1]] = <<>>
        THEN result
        ELSE renameLoopFirstOnly(Append(prefix, oldToNew[original[i + 1]][1]),
                                 original, oldToNew, result, 1)

\* renameInto, entered with the loop over the renamings of part i at its j-th
\* element (j = 1 is the call itself).
RECURSIVE renameLoop(_, _, _, _, _)
renameLoop(prefix, original, oldToNew, result, j) ==
    LET i == Len(prefix)
    IN  IF result.aborted
        THEN result
        ELSE IF i = Len(original)
        THEN [aborted |-> FALSE, sorts |-> result.sorts \cup {prefix}]
        ELSE IF original[i + 1] \notin DOMAIN oldToNew
        THEN AbortedSorts
        ELSE LET renamings == oldToNew[original[i + 1]]
             IN  IF j > Len(renamings)
                 THEN result
                 ELSE LET inner == renameLoop(Append(prefix, renamings[j]), original,
                                              oldToNew, result, 1)
                      IN  renameLoop(prefix, original, oldToNew, inner, j + 1)

renameInto(prefix, original, oldToNew, result) ==
    renameLoop(prefix, original, oldToNew, result, 1)

\* The loop of Sorts::rename over the patterns not yet visited.
RECURSIVE renameEach(_, _, _)
renameEach(todo, oldToNew, result) ==
    IF todo = {} \/ result.aborted
    THEN result
    ELSE LET s == CHOOSE t \in todo : TRUE
         IN  renameEach(todo \ {s}, oldToNew, renameInto(<<>>, s, oldToNew, result))

rename(sorts, oldToNew) == renameEach(sorts, oldToNew, NoSorts)

(***************************************************************************)
(* DocumentSourceSingleDocumentTransformation::getOutputSorts.             *)
(*                                                                         *)
(* The function is read with its misspelt tokens repaired ('!==' as '!=',  *)
(* 'path' as the loop variable 'oldName', the second declarations of       *)
(* 'mod', 'prev' and 'prevSorts' dropped).  Line 159, 'oldToNew[oldName]', *)
(* is an unfinished statement: it creates the entry, and either leaves it  *)
(* empty or gives it newNames; 'assign' says which.                        *)
(*                                                                         *)
(* A stage here is a sort stage, which guarantees its own patterns, or a   *)
(* transformation stage with its descriptor.                               *)
(***************************************************************************)
SortStage(sorts) == [kind |-> "sort", sorts |-> sorts, mod |-> NoMods]

TransformStage(mod) == [kind |-> "transform", sorts |-> {}, mod |-> mod]

Range(f) == { f[k] : k \in DOMAIN f }

\* std::map::operator[]= : the entry of k is created or replaced.
Put(m, k, v) == [x \in DOMAIN m \cup {k} |-> IF x = k THEN v ELSE m[x]]

\* oldToNew[k].push_back(v): the entry is created empty when absent.
PushBack(m, k, v) == Put(m, k, (IF k \in DOMAIN m THEN m[k] ELSE <<>>) \o <<v>>)

\* for (auto lostName : mod.paths) oldToNew[lostName] = {};
\* for (auto keptName : mod.paths) oldToNew[keptName] = {keptName};
RECURSIVE putPaths(_, _, _)
putPaths(m, paths, kept) ==
    IF paths = {}
    THEN m
    ELSE LET q == CHOOSE x \in paths : TRUE
         IN  putPaths(Put(m, q, IF kept THEN <<q>> ELSE <<>>), paths \ {q}, kept)

\* for (auto [newName, oldName] : mod.renames) oldToNew[oldName].push_back(newName);
RECURSIVE pushRenames(_, _, _)
pushRenames(m, renameOrder, k) ==
    IF k > Len(renameOrder)
    THEN m
    ELSE pushRenames(PushBack(m, renameOrder[k][2], renameOrder[k][1]), renameOrder, k + 1)

\* The second loop over the renames of the kFiniteSet case: a new name that has
\* no entry is lost.
RECURSIVE loseTargets(_, _, _)
loseTargets(m, renameOrder, k) ==
    IF k > Len(renameOrder)
    THEN m
    ELSE LET newName == renameOrder[k][1]
         IN  loseTargets(IF newName \in DOMAIN m THEN m ELSE Put(m, newName, <<>>),
                         renameOrder, k + 1)

\* The set the result is built from does not depend on the order in which the
\* renames are visited; one order is taken.
anyOrder(S) == CHOOSE f \in Orderings(S) : TRUE

\* As getOutputSorts, but a stage that keeps no sorting information passes the
\* guarantees of the previous stage on.
RECURSIVE getOutputSortsPassThrough(_, _, _)
getOutputSortsPassThrough(pipe, pos, assign) ==
    IF pipe[pos].kind = "sort"
    THEN [aborted |-> FALSE, sorts |-> pipe[pos].sorts]
    ELSE IF pos = 1
    THEN NoSorts
    ELSE getOutputSortsPassThrough(pipe, pos - 1, assign)

\* A part of a sort pattern that sorts by an expression has no field path
\* (part.fieldPath is empty); it is written as the path without elements.
noFieldPath == <<>>

\* The field paths of the parts of the sorts of the previous stage; a part
\* without a field path contributes none.
interestingPathsOf(sorts) == UNION { Range(sort) : sort \in sorts } \ {noFieldPath}

\* The map handed to Sorts::rename: the loop over interestingPaths, then the
\* switch over the type of the descriptor (kFiniteSet or kAllExcept here).
\* 'aborted' says that a call of whatHappenedTo failed.
buildOldToNew(mod, interestingPaths, assign) ==
    LET renameOrder == anyOrder(mod.renames)
        happened == [oldName \in interestingPaths |->
                        whatHappenedTo(mod, oldName, inOrder(mod.paths), renameOrder)]
        asked == [oldName \in interestingPaths |->
                     IF assign THEN happened[oldName].newNames ELSE <<>>]
    IN  [aborted |-> \E oldName \in interestingPaths : happened[oldName].aborted,
         map |-> IF mod.type = kFiniteSet
                 THEN loseTargets(
                          pushRenames(putPaths(asked, mod.paths, FALSE), renameOrder, 1),
                          renameOrder, 1)
                 ELSE pushRenames(putPaths(asked, mod.paths, TRUE), renameOrder, 1)]

RECURSIVE getOutputSorts(_, _, _)
getOutputSorts(pipe, pos, assign) ==
    IF pipe[pos].kind = "sort"
    THEN [aborted |-> FALSE, sorts |-> pipe[pos].sorts]
    ELSE IF pos = 1
    THEN NoSorts
    ELSE LET mod == pipe[pos].mod
         IN  IF mod.type # kFiniteSet /\ mod.type # kAllExcept
             THEN NoSorts
             ELSE LET prevSorts == getOutputSorts(pipe, pos - 1, assign)
                      oldToNew == buildOldToNew(mod, interestingPathsOf(prevSorts.sorts),
                                                assign)
                  IN  IF prevSorts.aborted
                      THEN AbortedSorts
                      ELSE IF oldToNew.aborted
                      THEN AbortedSorts
                      ELSE rename(prevSorts.sorts, oldToNew.map)

(***************************************************************************)
(* Calls of Sorts::rename and of getOutputSorts.                           *)
(***************************************************************************)
SortPaths == { <<"a">>, <<"b">> }

NewPaths == { <<"x">>, <<"y">> }

SeqsUpTo(S, n) == UNION { [1..k -> S] : k \in 0..n }

SortPatterns == SeqsUpTo(SortPaths, MaxSortParts) \ { <<>> }

\* At most two patterns.
SortsSets == { {p, q} : p \in SortPatterns, q \in SortPatterns } \cup { {} }

OldToNewMaps ==
    UNION { [D -> SeqsUpTo(NewPaths, MaxNewNames)] : D \in SUBSET SortPaths }

pA2 == <<"a2">>

SortPipelineStages ==
    { SortStage({<<pA>>}), SortStage({<<pB>>}), SortStage({<<pA, pB>>}),
      SortStage({<<noFieldPath>>}),
      TransformStage(ModPaths(kFiniteSet, {pA}, {})),
      TransformStage(ModPaths(kFiniteSet, {pA}, {<<pA2, pA>>})),
      TransformStage(NoMods),
      TransformStage(ModPaths(kAllExcept, {pA}, {})),
      TransformStage(ModPaths(kNotSupported, {pA}, {})),
      TransformStage(ModPaths(kAllPaths, {}, {<<pA2, pA>>})) }

SortPipelines == UNION { [1..n -> SortPipelineStages] : n \in 1..MaxStages }

RenameCalls ==
    { [fn |-> "rename", sorts |-> ss, oldToNew |-> m] : ss \in SortsSets, m \in OldToNewMaps }

GetOutputSortsCalls ==
    { [fn |-> "getOutputSorts", pipe |-> c, pos |-> n] :
        c \in SortPipelines, n \in 1..MaxStages }

InitSorts ==
    /\ EngineIdle
    /\ PathsIdle
    /\ fCall \in RenameCalls \cup { g \in GetOutputSortsCalls : g.pos <= Len(g.pipe) }
    /\ fRes = [aborted |-> FALSE]
    /\ fPc = "call"

Rename ==
    /\ fPc = "call"
    /\ fCall.fn = "rename"
    /\ fRes' = rename(fCall.sorts, fCall.oldToNew)
    /\ fPc' = "done"
    /\ UNCHANGED <<fCall, engineVars, pathVars>>

GetOutputSorts ==
    /\ fPc = "call"
    /\ fCall.fn = "getOutputSorts"
    /\ \E assign \in BOOLEAN : fRes' = getOutputSorts(fCall.pipe, fCall.pos, assign)
    /\ fPc' = "done"
    /\ UNCHANGED <<fCall, engineVars, pathVars>>

NextSorts == Rename \/ GetOutputSorts

SpecSorts == InitSorts /\ [][NextSorts]_vars

(***************************************************************************)
(* DocumentSource::registerParser and DocumentSource::parse.               *)
(*                                                                         *)
(* A stage object is the list of its field names; parserMap maps a stage   *)
(* name to its parser and its required minimum version (0: none).  The     *)
(* context's maximum feature compatibility version is 0 when it has none.  *)
(* A failed uassert is a user error that carries its code.                 *)
(***************************************************************************)
StageNames == {"$match", "$project", "$other"}

Parsers == {"parseMatch", "parseProject"}

Versions == 1..MaxVersion

OptionalVersions == {0} \cup Versions

StageObjs == SeqsUpTo(StageNames, 2)

\* What a registered parser returns: the stages it built from the element.
parserResult(parser, stageSpec) == [by |-> parser, from |-> stageSpec]

UserError(code) == [ok |-> FALSE, code |-> code, called |-> "none"]

\* As parse, but the version requirement of the stage is not looked at.
parseAnyVersion(parserMap, maxFeatureCompatibilityVersion, stageObj) ==
    IF Len(stageObj) # 1
    THEN UserError("16435")
    ELSE LET stageName == stageObj[1]
         IN  IF stageName \notin DOMAIN parserMap
             THEN UserError("16436")
             ELSE [ok |-> TRUE, called |-> parserMap[stageName].parser,
                   value |-> parserResult(parserMap[stageName].parser, stageName)]

parse(parserMap, maxFeatureCompatibilityVersion, stageObj) ==
    IF Len(stageObj) # 1
    THEN UserError("16435")
    ELSE LET stageName == stageObj[1]
         IN  IF stageName \notin DOMAIN parserMap
             THEN UserError("16436")
             ELSE LET it == parserMap[stageName]
                  IN  IF ~ (\/ maxFeatureCompatibilityVersion = 0
                            \/ it.requiredMinVersion = 0
                            \/ it.requiredMinVersion <= maxFeatureCompatibilityVersion)
                      THEN UserError("QueryFeatureNotAllowed")
                      ELSE [ok |-> TRUE, called |-> it.parser,
                            value |-> parserResult(it.parser, stageName)]

NoParsers == [name \in {} |-> [parser |-> "none", requiredMinVersion |-> 0]]

InitParse ==
    /\ EngineIdle
    /\ PathsIdle
    /\ \E obj \in StageObjs, v \in OptionalVersions :
           fCall = [fn |-> "parse", parserMap |-> NoParsers,
                    maxFeatureCompatibilityVersion |-> v, stageObj |-> obj]
    /\ fRes = [aborted |-> FALSE]
    /\ fPc = "startup"

\* registerParser: a name is registered once; a second registration fails the
\* massert and start-up ends.
RegisterParser ==
    /\ fPc = "startup"
    /\ \E name \in StageNames, parser \in Parsers, requiredMinVersion \in OptionalVersions :
           IF name \in DOMAIN fCall.parserMap
           THEN /\ fPc' = "failed"
                /\ fRes' = [aborted |-> TRUE]
                /\ UNCHANGED fCall
           ELSE /\ fCall' = [fCall EXCEPT !.parserMap =
                                 Put(@, name, [parser |-> parser,
                                               requiredMinVersion |-> requiredMinVersion])]
                /\ UNCHANGED <<fPc, fRes>>
    /\ UNCHANGED <<engineVars, pathVars>>

Parse ==
    /\ fPc = "startup"
    /\ fRes' = parse(fCall.parserMap, fCall.maxFeatureCompatibilityVersion, fCall.stageObj)
    /\ fPc' = "done"
    /\ UNCHANGED <<fCall, engineVars, pathVars>>

NextParse == RegisterParser \/ Parse

SpecParse == InitParse /\ [][NextParse]_vars

(***************************************************************************)
(* WindowBounds::parse.                                                    *)
(*                                                                         *)
(* The arguments object is read through its fields 'documents', 'range'    *)
(* and 'unit', each absent or present; 'documents' is an array of elements *)
(* or a value of another type.  An element is a string, or an expression   *)
(* that is a constant integer, a constant that is not integral, or not a   *)
(* constant.                                                               *)
(***************************************************************************)
Absent == [present |-> FALSE]

StringElem(str) == [type |-> "String", str |-> str]

IntElem(n) == [type |-> "Int", n |-> n]

BoundElems ==
    { StringElem("unbounded"), StringElem("current"), StringElem("other"),
      IntElem(-2), IntElem(0), IntElem(4),
      [type |-> "Double"], [type |-> "Expression"] }

DocumentsFields ==
    { [present |-> TRUE, type |-> "Array", elems |-> a] :
        a \in SeqsUpTo(BoundElems, MaxArrayLen) }
    \cup { [present |-> TRUE, type |-> "String", elems |-> <<>>] }

OtherFields == { [present |-> TRUE] }

WindowArgs ==
    [documents : {Absent} \cup DocumentsFields,
     range : {Absent} \cup OtherFields,
     unit : {Absent} \cup OtherFields]

Unbounded == [bound |-> "Unbounded"]

Current == [bound |-> "Current"]

FailedToParse == [ok |-> FALSE, code |-> "FailedToParse"]

\* parseBound<int> with the parseInt handler: the bound, or the failed uassert.
parseBound(elem) ==
    IF elem.type = "String"
    THEN IF elem.str = "unbounded" THEN [ok |-> TRUE, bound |-> Unbounded]
         ELSE IF elem.str = "current" THEN [ok |-> TRUE, bound |-> Current]
         ELSE FailedToParse
    ELSE IF elem.type = "Expression" THEN FailedToParse
    ELSE IF elem.type # "Int" THEN FailedToParse
    ELSE [ok |-> TRUE, bound |-> [bound |-> "Int", n |-> elem.n]]

DocumentBased(lower, upper) ==
    [ok |-> TRUE, bounds |-> [kind |-> "DocumentBased", lower |-> lower, upper |-> upper]]

\* As parseWindowBounds, but without 'documents' the window is the current
\* document only.
parseWindowBoundsCurrentDefault(args) ==
    IF args.documents.present /\ args.range.present THEN FailedToParse
    ELSE IF ~ args.range.present /\ args.unit.present THEN FailedToParse
    ELSE IF args.documents.present
    THEN IF ~ (args.documents.type = "Array" /\ Len(args.documents.elems) = 2)
         THEN FailedToParse
         ELSE LET lower == parseBound(args.documents.elems[1])
                  upper == parseBound(args.documents.elems[2])
              IN  IF ~ lower.ok THEN FailedToParse
                  ELSE IF ~ upper.ok THEN FailedToParse
                  ELSE DocumentBased(lower.bound, upper.bound)
    ELSE IF args.range.present THEN [ok |-> FALSE, code |-> "0"]
    ELSE DocumentBased(Current, Current)

\* WindowBounds::parse
parseWindowBounds(args) ==
    IF args.documents.present /\ args.range.present THEN FailedToParse
    ELSE IF ~ args.range.present /\ args.unit.present THEN FailedToParse
    ELSE IF args.documents.present
    THEN IF ~ (args.documents.type = "Array" /\ Len(args.documents.elems) = 2)
         THEN FailedToParse
         ELSE LET lower == parseBound(args.documents.elems[1])
                  upper == parseBound(args.documents.elems[2])
              IN  IF ~ lower.ok THEN FailedToParse
                  ELSE IF ~ upper.ok THEN FailedToParse
                  ELSE DocumentBased(lower.bound, upper.bound)
    ELSE IF args.range.present THEN [ok |-> FALSE, code |-> "0"]
    ELSE DocumentBased(Unbounded, Unbounded)

InitWindow ==
    /\ EngineIdle
    /\ PathsIdle
    /\ \E args \in WindowArgs : fCall = [fn |-> "WindowBounds::parse", args |-> args]
    /\ fRes = [aborted |-> FALSE]
    /\ fPc = "call"

ParseWindowBounds ==
    /\ fPc = "call"
    /\ fCall.fn = "WindowBounds::parse"
    /\ fRes' = parseWindowBounds(fCall.args)
    /\ fPc' = "done"
    /\ UNCHANGED <<fCall, engineVars, pathVars>>

NextWindow == ParseWindowBounds

SpecWindow == InitWindow /\ [][NextWindow]_vars

(***************************************************************************)
(* ReplicaSetConfig::initialize.                                           *)
(*                                                                         *)
(* A configuration document is read through what initialize looks at:      *)
(* whether the checks before the members pass (legal fields, _id, version, *)
(* members an array), the elements of 'members', whether the checks of the *)
(* settings before getLastErrorModes pass, and the elements of             *)
(* settings.getLastErrorModes.  The object keeps _members,                 *)
(* _customWriteConcernModes and _majorityNumber between calls.             *)
(***************************************************************************)
\* An element of 'members': not an object, an object MemberConfig::initialize
\* refuses, or a member that is an arbiter or not.
MemberElems ==
    { [type |-> "String", valid |-> FALSE, arbiter |-> FALSE],
      [type |-> "Object", valid |-> FALSE, arbiter |-> FALSE],
      [type |-> "Object", valid |-> TRUE, arbiter |-> FALSE],
      [type |-> "Object", valid |-> TRUE, arbiter |-> TRUE] }

\* An element of getLastErrorModes: its field name, its type and the count of
\* its one constraint.
ModeElems ==
    { [name |-> "dc", type |-> "Object", minCount |-> 1],
      [name |-> "dc", type |-> "Object", minCount |-> 0],
      [name |-> "rack", type |-> "Object", minCount |-> 1],
      [name |-> "rack", type |-> "String", minCount |-> 1] }

ReplConfigs ==
    [headerOK : BOOLEAN,
     members : SeqsUpTo(MemberElems, MaxMembers),
     settingsOK : BOOLEAN,
     gleModes : SeqsUpTo(ModeElems, MaxModes)]

\* ReplicaSetConfig(): no members, no custom modes.
NewReplicaSetConfig ==
    [members |-> <<>>, customWriteConcernModes |-> [n \in {} |-> 0], majorityNumber |-> 0]

\* The loop over the elements of 'members', from the k-th on.
RECURSIVE parseMembers(_, _, _)
parseMembers(elems, k, members) ==
    IF k > Len(elems)
    THEN [status |-> "OK", members |-> members]
    ELSE IF elems[k].type # "Object"
    THEN [status |-> "TypeMismatch", members |-> members]
    ELSE IF ~ elems[k].valid
    THEN [status |-> "BadMember", members |-> Append(members, [arbiter |-> elems[k].arbiter])]
    ELSE parseMembers(elems, k + 1, Append(members, [arbiter |-> elems[k].arbiter]))

\* The loop of _parseSettingsSubdocument over getLastErrorModes, from the k-th
\* element on, on the modes the object holds.
RECURSIVE parseModes(_, _, _)
parseModes(elems, k, modes) ==
    IF k > Len(elems)
    THEN [status |-> "OK", modes |-> modes]
    ELSE IF elems[k].name \in DOMAIN modes
    THEN [status |-> "DuplicateKey", modes |-> modes]
    ELSE IF elems[k].type # "Object"
    THEN [status |-> "TypeMismatch", modes |-> modes]
    ELSE IF elems[k].minCount <= 0
    THEN [status |-> "BadValue", modes |-> modes]
    ELSE parseModes(elems, k + 1, Put(modes, elems[k].name, elems[k].minCount))

\* As calculateMajorityNumber, but arbiters are not looked at.
calculateMajorityNumberStrict(members) == Len(members) \div 2 + 1

\* ReplicaSetConfig::_calculateMajorityNumber
calculateMajorityNumber(members) ==
    LET total == Len(members)
        strictMajority == total \div 2 + 1
        nonArbiters == total - Cardinality({ k \in 1..total : members[k].arbiter })
    IN  IF strictMajority > nonArbiters THEN nonArbiters ELSE strictMajority

\* initialize(cfg) on the object 'self': the status returned and the object after.
initialize(self, cfg) ==
    LET cleared == [self EXCEPT !.members = <<>>]
        parsed == parseMembers(cfg.members, 1, <<>>)
        withMembers == [cleared EXCEPT !.members = parsed.members]
        settings == parseModes(cfg.gleModes, 1, self.customWriteConcernModes)
        withModes == [withMembers EXCEPT !.customWriteConcernModes = settings.modes]
    IN  IF ~ cfg.headerOK
        THEN [status |-> "BadHeader", config |-> cleared]
        ELSE IF parsed.status # "OK"
        THEN [status |-> parsed.status, config |-> withMembers]
        ELSE IF ~ cfg.settingsOK
        THEN [status |-> "BadSettings", config |-> withMembers]
        ELSE IF settings.status # "OK"
        THEN [status |-> settings.status, config |-> withModes]
        ELSE [status |-> "OK",
              config |-> [withModes EXCEPT !.majorityNumber =
                             calculateMajorityNumber(parsed.members)]]

NotCalled == [status |-> "none", config |-> NewReplicaSetConfig]

InitReplConfig ==
    /\ EngineIdle
    /\ PathsIdle
    /\ \E cfg \in ReplConfigs : fCall = [fn |-> "initialize", cfg |-> cfg]
    /\ fRes = [aborted |-> FALSE, calls |-> 0, first |-> NotCalled, now |-> NotCalled]
    /\ fPc = "call"

\* One call of initialize with the configuration; 'first' keeps the outcome of
\* the first call, 'now' that of the latest.
InitializeConfig ==
    /\ fPc = "call"
    /\ fCall.fn = "initialize"
    /\ LET r == initialize(fRes.now.config, fCall.cfg)
       IN  /\ fRes' = [aborted |-> FALSE,
                       calls |-> fRes.calls + 1,
                       first |-> IF fRes.calls = 0 THEN r ELSE fRes.first,
                       now |-> r]
           /\ fPc' = IF fRes.calls = 0 THEN "call" ELSE "done"
    /\ UNCHANGED <<fCall, engineVars, pathVars>>

NextReplConfig == InitializeConfig

SpecReplConfig == InitReplConfig /\ [][NextReplConfig]_vars

(***************************************************************************)
(* Properties of the rewrite engine.  In each, b is the sequence before    *)
(* the most recent optimizeAt call and i the position it was called at.    *)
(***************************************************************************)
Called == last.op = "optimizeAt"

HasNext == Called /\ last.pos < Len(last.before)

\* C1: the driver reaches the end position: there is no infinite run of rewrites.
C1_Termination == <>(itr = End(container))

C1_Witness == itr = End(container) /\ container # input /\ Len(container) > Len(input)

\* C2: a filter pushdown that splits the filter after stage S into I and D leaves
\* everything before S, then I, then S, then D if there is one, then everything
\* that followed the filter; the original filter is gone.
C2_PushMatchResult ==
    last.pushedMatch =>
        LET b == last.before
            i == last.pos
            sp == splitMatchByModifiedFields(b[i + 1], b[i].mod)
        IN  /\ sp.first # {}
            /\ container = SubSeq(b, 1, i - 1)
                            \o <<Match(sp.first)>>
                            \o <<b[i]>>
                            \o (IF sp.second # {} THEN <<Match(sp.second)>> ELSE <<>>)
                            \o SubSeq(b, i + 2, Len(b))

C2_Witness ==
    /\ last.pushedMatch
    /\ last.pos > 1
    /\ Len(container) = Len(last.before) + 1
    /\ container[last.pos + 2].kind = "match"

\* C3: a group stage with exactly one id field followed by a filter with an
\* existence predicate on _id: no part of the filter is placed before the group.
GroupExistsCase ==
    /\ HasNext
    /\ last.before[last.pos].kind = "group"
    /\ last.before[last.pos].idFields = 1
    /\ last.before[last.pos + 1].kind = "match"
    /\ hasExistencePredicateOnPath(last.before[last.pos + 1], pId)

C3_GroupExistsGuard ==
    GroupExistsCase =>
        /\ ~ last.pushedMatch
        /\ SubSeq(container, 1, last.pos) = SubSeq(last.before, 1, last.pos)
        /\ container[last.pos + 1] = last.before[last.pos + 1]

C3_Witness ==
    /\ GroupExistsCase
    /\ last.before[last.pos].canSwapWithMatch
    /\ splitMatchByModifiedFields(last.before[last.pos + 1],
                                  last.before[last.pos].mod).first # {}

\* C4: a stage that may swap with skipping or limiting stages and is followed by a
\* sample stage: the sample ends up immediately before it, all else in place.
SampleCase ==
    /\ HasNext
    /\ last.before[last.pos].canSwapWithSkippingOrLimitingStage
    /\ last.before[last.pos + 1].kind = "sample"

C4_SamplePushed ==
    SampleCase =>
        LET b == last.before
            i == last.pos
        IN  /\ last.pushedSample
            /\ container = SubSeq(b, 1, i - 1) \o <<b[i + 1], b[i]>>
                            \o SubSeq(b, i + 2, Len(b))

C4_Witness ==
    /\ SampleCase
    /\ last.pos > 1
    /\ last.before[last.pos + 1].size = 2
    /\ last.before[last.pos].canSwapWithMatch

\* C5: after a filter or sample pushdown at S the returned position is two steps
\* before the new position of S, clamped to the start: the stage before the
\* inserted stage if there is one, else the inserted stage.
C5_ReturnAfterPush ==
    (last.pushedMatch \/ last.pushedSample) =>
        LET b == last.before
            i == last.pos
            sNew == i + 1
        IN  /\ container[sNew] = b[i]
            /\ last.ret = (IF sNew > 2 THEN sNew - 2 ELSE 1)
            /\ itr = last.ret
            /\ IF i > 1
               THEN container[last.ret] = b[i - 1]
               ELSE /\ last.ret = 1
                    /\ container[last.ret].kind \in {"match", "sample"}

C5_Witness == last.pushedMatch /\ last.pos = 2 /\ last.ret = 1

\* C6: pushMatchBefore changes the sequence only if the stage has canSwapWithMatch
\* and the next stage is a filter that is not a text query; a text filter is
\* never moved.
C6_PushMatchPreconditions ==
    /\ last.pushedMatch =>
            /\ last.before[last.pos].canSwapWithMatch
            /\ last.before[last.pos + 1].kind = "match"
            /\ ~ last.before[last.pos + 1].isText
    /\ (HasNext /\ last.before[last.pos + 1].isText) => container = last.before

C6_Witness ==
    /\ HasNext
    /\ last.before[last.pos + 1].isText
    /\ last.before[last.pos].canSwapWithMatch
    /\ last.before[last.pos].mod.type = kFiniteSet

\* C7: for a stage with a FiniteSet descriptor, a following filter whose paths
\* overlap no modified path and no rename target gets a non-empty independent
\* part, and no predicate on a path overlapping a modified path is independent.
FiniteSetCase ==
    /\ HasNext
    /\ last.before[last.pos].mod.type = kFiniteSet
    /\ last.before[last.pos + 1].kind = "match"

Disjoint(match, mod) ==
    \A p \in match.preds :
        \A m \in mod.paths \cup { r[1] : r \in mod.renames } : ~ PathsOverlap(p.path, m)

C7_FiniteSetSplit ==
    FiniteSetCase =>
        LET s == last.before[last.pos]
            m == last.before[last.pos + 1]
            sp == splitMatchByModifiedFields(m, s.mod)
        IN  /\ Disjoint(m, s.mod) => sp.first # {}
            /\ \A p \in sp.first : \A q \in s.mod.paths : ~ PathsOverlap(p.path, q)
            /\ last.pushedMatch =>
                   \A p \in container[last.pos].preds :
                       \A q \in s.mod.paths : ~ PathsOverlap(p.path, q)

C7_Witness ==
    /\ FiniteSetCase
    /\ last.pushedMatch
    /\ last.before[last.pos].mod.paths # {}
    /\ \E p \in last.before[last.pos + 1].preds :
           \E q \in last.before[last.pos].mod.paths : PathsOverlap(p.path, q)

(***************************************************************************)
(* Properties of whatHappenedTo, stated of a finished call.                *)
(***************************************************************************)
Returned == wPc = "done"

Contains(names, p) == \E k \in 1..Len(names) : names[k] = p

RenameDescriptor == ModPaths(kFiniteSet, {}, {<< <<"b">>, <<"a">> >>})

\* C8: for a FiniteSet or AllExcept descriptor, every rename entry (newName,
\* oldName) whose oldName is a prefix of oldPath contributes newName followed by
\* the rest of oldPath to the result.  Stated of the calls that return a list.
C8_RenameComposed ==
    (Returned /\ ~ wRes.aborted /\ wMod.type \in {kFiniteSet, kAllExcept}) =>
        \A r \in wMod.renames :
               isPrefixOf(r[2], wOld) =>
                   Contains(wRes.newNames, r[1] \o SubSeq(wOld, Len(r[2]) + 1, Len(wOld)))

\* C9: for FiniteSet{paths: {}, renames: {b: a}}, whatHappenedTo("a") is exactly
\* ["b"] and whatHappenedTo("a.c") is exactly ["b.c"].
C9_RenameExample ==
    (Returned /\ wMod = RenameDescriptor) =>
        /\ wOld = <<"a">> => (~ wRes.aborted /\ wRes.newNames = << <<"b">> >>)
        /\ wOld = <<"a", "c">> => (~ wRes.aborted /\ wRes.newNames = << <<"b", "c">> >>)

\* C10: for a FiniteSet descriptor, the result contains oldPath under its own name
\* if and only if oldPath overlaps no path in 'paths' and no rename target.
C10_FiniteSetPreserves ==
    (Returned /\ wMod.type = kFiniteSet) =>
        /\ ~ wRes.aborted
        /\ Contains(wRes.newNames, wOld) <=>
               \A q \in wMod.paths \cup { r[1] : r \in wMod.renames } :
                   ~ PathsOverlap(wOld, q)

Count(names, p) == Cardinality({ k \in 1..Len(names) : names[k] = p })

\* C11: for an AllExcept descriptor, the result contains the unchanged oldPath if
\* and only if some prefix of oldPath (oldPath included) is in 'paths', and it
\* is added at most once.
C11_AllExceptPreserves ==
    (Returned /\ wMod.type = kAllExcept) =>
        /\ ~ wRes.aborted
        /\ Contains(wRes.newNames, wOld) <=>
               \E k \in 1..Len(wOld) : SubSeq(wOld, 1, k) \in wMod.paths
        /\ Count(wRes.newNames, wOld) <= 1

\* C12: for a NotSupported or AllPaths descriptor the result is the empty list,
\* whatever its paths and renames hold.
C12_NoInformation ==
    (Returned /\ wMod.type \in {kNotSupported, kAllPaths}) =>
        /\ ~ wRes.aborted
        /\ wRes.newNames = <<>>

C12_Witness ==
    /\ Returned
    /\ wMod.type = kAllPaths
    /\ wOld \in wMod.paths
    /\ \E r \in wMod.renames : isPrefixOf(r[2], wOld)

\* C13: a rename entry whose target is a dotted path is never composed: it adds
\* no name to the result.  Stated of the calls that return a list: the result
\* holds at most the preserved name and one name per entry with a plain target.
C13_NoBroadcastComposition ==
    (Returned /\ ~ wRes.aborted) =>
        LET plain == { r \in wMod.renames : Len(r[1]) = 1 /\ isPrefixOf(r[2], wOld) }
            dottedOnly == \A r \in wMod.renames : Len(r[1]) > 1
            listed == \E k \in 1..Len(wOld) : SubSeq(wOld, 1, k) \in wMod.paths
        IN  /\ Len(wRes.newNames) <= 1 + Cardinality(plain)
            /\ (dottedOnly /\ wMod.type = kAllExcept /\ ~ listed) => wRes.newNames = <<>>

(***************************************************************************)
(* Properties of overlaps, stated of a finished call.                      *)
(***************************************************************************)
\* C14: overlaps is defined for every pair of paths, holds exactly when one path
\* is a segment-wise prefix of the other (so it is reflexive), and is symmetric.
C14_OverlapsIsPrefixRelation ==
    (fPc = "done" /\ fCall.fn = "overlaps") =>
        /\ ~ fRes.aborted
        /\ fRes.value = PathsOverlap(fCall.x, fCall.y)
        /\ fCall.x = fCall.y => fRes.value
        /\ overlaps(fCall.y, fCall.x).ok
        /\ overlaps(fCall.y, fCall.x).value = fRes.value

(***************************************************************************)
(* Properties of Sorts::rename and getOutputSorts.                         *)
(***************************************************************************)
RenameReturned == fPc = "done" /\ fCall.fn = "rename"

\* The new names of a part; a part without an entry has none.
Names(m, k) == IF k \in DOMAIN m THEN Range(m[k]) ELSE {}

\* Every tuple (n1..nk) with ni among the new names of pi.
CrossProduct(p, m) ==
    { n \in [1..Len(p) -> UNION { Names(m, k) : k \in Range(p) }] :
        \A i \in 1..Len(p) : n[i] \in Names(m, p[i]) }

\* C16: Sorts::rename returns exactly the cross products of the input patterns:
\* each result has the arity of its source pattern with every part
\* substituted, a pattern with a part mapped to the empty list contributes
\* nothing, and the call completes whenever every part has an entry.
C16_RenameCrossProduct ==
    RenameReturned =>
        /\ (\A p \in fCall.sorts : Range(p) \subseteq DOMAIN fCall.oldToNew)
               => ~ fRes.aborted
        /\ ~ fRes.aborted =>
               /\ fRes.sorts = UNION { CrossProduct(p, fCall.oldToNew) : p \in fCall.sorts }
               /\ \A n \in fRes.sorts :
                      \E p \in fCall.sorts :
                          /\ Len(n) = Len(p)
                          /\ \A i \in 1..Len(p) : n[i] \in Range(fCall.oldToNew[p[i]])
               /\ \A p \in fCall.sorts :
                      (\E i \in 1..Len(p) : Names(fCall.oldToNew, p[i]) = {})
                          => CrossProduct(p, fCall.oldToNew) = {}

\* A two-part pattern is expanded into several patterns and another pattern,
\* with a part mapped to the empty list, is dropped.
C16_Witness ==
    /\ RenameReturned
    /\ ~ fRes.aborted
    /\ \E p \in fCall.sorts :
           Len(p) = 2 /\ Cardinality(CrossProduct(p, fCall.oldToNew)) >= 2
    /\ \E q \in fCall.sorts :
           /\ Range(q) \subseteq DOMAIN fCall.oldToNew
           /\ \E i \in 1..Len(q) : fCall.oldToNew[q[i]] = <<>>

OutputSortsReturned == fPc = "done" /\ fCall.fn = "getOutputSorts"

\* The call asks about a transformation stage that directly follows a sort stage.
AfterSort(mod) ==
    /\ OutputSortsReturned
    /\ fCall.pos = 2
    /\ fCall.pipe[1].kind = "sort"
    /\ fCall.pipe[2] = TransformStage(mod)

\* C15: through a kFiniteSet stage that modifies {a}, without renames a
\* guarantee of sort-by-a is absent from the output and a guarantee of sort-by-b
\* is present unchanged; with the rename {a2: a} a guarantee of sort-by-(a, b)
\* yields the guarantee sort-by-(a2, b).
C15_FiniteSetSorts ==
    /\ AfterSort(ModPaths(kFiniteSet, {pA}, {})) =>
           /\ <<pA>> \in fCall.pipe[1].sorts =>
                  ~ fRes.aborted /\ <<pA>> \notin fRes.sorts
           /\ <<pB>> \in fCall.pipe[1].sorts =>
                  ~ fRes.aborted /\ <<pB>> \in fRes.sorts
    /\ AfterSort(ModPaths(kFiniteSet, {pA}, {<<pA2, pA>>}))
           /\ <<pA, pB>> \in fCall.pipe[1].sorts =>
               ~ fRes.aborted /\ <<pA2, pB>> \in fRes.sorts

NoSortInformation(st) ==
    st.kind = "transform" /\ st.mod.type \in {kNotSupported, kAllPaths}

\* C17: getOutputSorts of a transformation stage returns the empty set of sorts
\* when the stage is the first of the sequence, and when its descriptor is
\* kNotSupported or kAllPaths, whatever the previous stages guarantee.
C17_NoSortsKept ==
    /\ OutputSortsReturned
    /\ \/ fCall.pos = 1 /\ fCall.pipe[1].kind = "transform"
       \/ NoSortInformation(fCall.pipe[fCall.pos])
    => fRes = NoSorts

\* A stage without sort information follows a sort stage that guarantees a sort.
C17_Witness ==
    /\ OutputSortsReturned
    /\ fCall.pos = 2
    /\ fCall.pipe[1].kind = "sort"
    /\ fCall.pipe[1].sorts # {}
    /\ NoSortInformation(fCall.pipe[2])
    /\ fRes = NoSorts

(***************************************************************************)
(* Properties of optimizeAt when no rewrite is applied.                    *)
(***************************************************************************)
NothingPushed == Called /\ ~ last.pushedMatch /\ ~ last.pushedSample

\* C19: when neither a $match nor a $sample is pushed, also at the last stage,
\* optimizeAt changes nothing itself: the container and the returned position
\* are exactly those of the stage's doOptimizeAt on the container as it was.
C19_DelegatesToHook ==
    NothingPushed =>
        LET hook == doOptimizeAt(last.before, last.pos)
        IN  /\ last.ret = hook.ret
            /\ container = hook.c
            /\ last.before[last.pos].kind # "transform" =>
                   container = last.before /\ last.ret = last.pos + 1

\* Nothing was pushed and the hook of a transformation swapped it with the
\* $skip that follows it, returning a position other than the next one.
C19_Witness ==
    /\ NothingPushed
    /\ HasNext
    /\ last.before[last.pos].kind = "transform"
    /\ container # last.before
    /\ last.ret = doOptimizeAt(last.before, last.pos).ret
    /\ last.ret # last.pos + 1

\* C20: when pushMatchBefore and pushSampleBefore both return false, the
\* container after the two attempts holds the same stages in the same order
\* as before them.
C20_FailedAttemptsChangeNothing ==
    HasNext /\ NothingPushed => last.attempted = last.before

\* A $match that cannot be moved follows a stage that may swap with a $match:
\* the split was made and nothing was pushed.
C20_Witness ==
    /\ HasNext
    /\ NothingPushed
    /\ last.before[last.pos].canSwapWithMatch
    /\ last.before[last.pos + 1].kind = "match"
    /\ ~ last.before[last.pos + 1].isText
    /\ last.attempted = last.before

NoInformationCase ==
    /\ HasNext
    /\ last.before[last.pos].mod.type \in {kNotSupported, kAllPaths}
    /\ last.before[last.pos + 1].kind = "match"

\* C25: when the stage's descriptor is kNotSupported or kAllPaths, no part of
\* a following $match is moved before the stage: the split has no independent
\* part and the whole $match as the dependent part, and the sequence is left
\* as it was.
C25_NoInformationNoPush ==
    NoInformationCase =>
        LET splitMatch == splitMatchByModifiedFields(last.before[last.pos + 1],
                                                     last.before[last.pos].mod)
        IN  /\ splitMatch.first = {}
            /\ splitMatch.second = last.before[last.pos + 1].preds
            /\ ~ last.pushedMatch
            /\ pushMatchBefore(last.before, last.pos).c = last.before
            /\ container = last.before

\* The stage may swap with a $match and the $match is not a text query, so the
\* split was asked for.
C25_Witness ==
    /\ NoInformationCase
    /\ last.before[last.pos].canSwapWithMatch
    /\ ~ last.before[last.pos + 1].isText
    /\ last.before[last.pos + 1].preds # {}
    /\ container = last.before

\* The hook of a transformation stage was called: nothing was pushed.
TransformHookCalled == NothingPushed /\ last.before[last.pos].kind = "transform"

\* C26: doOptimizeAt of a single-document transformation returns the end and
\* changes nothing when the stage is last; exchanges the stage with a
\* following $skip and returns the position before the $skip's new position,
\* or that position itself at the start of the sequence; and otherwise changes
\* nothing and returns the next position.
C26_TransformHook ==
    TransformHookCalled =>
        LET c == last.before
            i == last.pos
        IN  IF i = Len(c)
            THEN container = c /\ last.ret = End(c)
            ELSE IF c[i + 1].kind = "skip"
            THEN /\ Len(container) = Len(c)
                 /\ container[i] = c[i + 1]
                 /\ container[i + 1] = c[i]
                 /\ \A k \in 1..Len(c) : k \notin {i, i + 1} => container[k] = c[k]
                 /\ last.ret = IF i = 1 THEN 1 ELSE i - 1
            ELSE container = c /\ last.ret = i + 1

\* A transformation that is not first was exchanged with the $skip after it.
C26_Witness ==
    /\ TransformHookCalled
    /\ last.pos = 2
    /\ Len(last.before) = 3
    /\ last.before[3].kind = "skip"
    /\ container[2].kind = "skip"
    /\ container[3].kind = "transform"
    /\ last.ret = 1

\* C28: every position optimizeAt returns is that of a stage in the sequence
\* or the end; after a $match or $sample was pushed it is at or before the
\* position of the pushed stage, never before the start and never the
\* position the original $match or $sample was erased from.
C28_ReturnedPositionValid ==
    Called =>
        /\ last.ret \in 1..End(container)
        /\ itr = last.ret
        /\ (last.pushedMatch \/ last.pushedSample) =>
               /\ last.ret \in 1..last.pos
               /\ last.ret # last.pos + 1

\* A rewrite at the first stage returns the start, a position that exists.
C28_Witness ==
    /\ Called
    /\ last.pushedMatch \/ last.pushedSample
    /\ last.pos = 1
    /\ last.ret = 1
    /\ Len(container) >= 2

\* The call reaches Sorts::rename: the stage is a kFiniteSet or kAllExcept
\* transformation that is not first, and the previous stage returned sorts.
ReachesRename(assign) ==
    /\ OutputSortsReturned
    /\ fCall.pos > 1
    /\ fCall.pipe[fCall.pos].kind = "transform"
    /\ fCall.pipe[fCall.pos].mod.type \in {kFiniteSet, kAllExcept}
    /\ ~ getOutputSorts(fCall.pipe, fCall.pos - 1, assign).aborted

PrevSorts(assign) == getOutputSorts(fCall.pipe, fCall.pos - 1, assign).sorts

\* C30: the map getOutputSorts hands to Sorts::rename has an entry for every
\* field path of every sort pattern of the previous stage, so renameInto never
\* misses an entry for any pipeline: the call fails only where whatHappenedTo
\* failed before.
C30_EveryPathHasEntry ==
    LET oldToNew(assign) == buildOldToNew(fCall.pipe[fCall.pos].mod,
                                          interestingPathsOf(PrevSorts(assign)), assign)
    IN  /\ \A assign \in BOOLEAN :
               ReachesRename(assign) =>
                   /\ interestingPathsOf(PrevSorts(assign))
                          \subseteq DOMAIN oldToNew(assign).map
                   /\ ~ rename(PrevSorts(assign), oldToNew(assign).map).aborted
        /\ (\A assign \in BOOLEAN : ReachesRename(assign) /\ ~ oldToNew(assign).aborted)
               => ~ fRes.aborted

(***************************************************************************)
(* Properties of DocumentSource::parse.                                    *)
(***************************************************************************)
ParseReturned == fPc = "done" /\ fCall.fn = "parse"

\* The stage is registered with a minimum version above the context's maximum.
VersionTooNew ==
    /\ Len(fCall.stageObj) = 1
    /\ fCall.stageObj[1] \in DOMAIN fCall.parserMap
    /\ fCall.maxFeatureCompatibilityVersion # 0
    /\ fCall.parserMap[fCall.stageObj[1]].requiredMinVersion
           > fCall.maxFeatureCompatibilityVersion

MustFail ==
    \/ Len(fCall.stageObj) # 1
    \/ fCall.stageObj[1] \notin DOMAIN fCall.parserMap
    \/ VersionTooNew

\* C21: parse fails with a user error and calls no parser when the stage
\* object does not have exactly one field, when the stage name is not
\* registered, or when the stage's required minimum version is greater than
\* the context's maximum version; in every other case it returns the result
\* of the parser registered under the name.
C21_ParseErrors ==
    ParseReturned =>
        IF MustFail
        THEN ~ fRes.ok /\ fRes.called = "none"
        ELSE /\ fRes.ok
             /\ fRes.called = fCall.parserMap[fCall.stageObj[1]].parser
             /\ fRes.value = parserResult(fCall.parserMap[fCall.stageObj[1]].parser,
                                          fCall.stageObj[1])

\* A registered stage was refused for its version.
C21_Witness ==
    /\ ParseReturned
    /\ VersionTooNew
    /\ ~ fRes.ok
    /\ fRes.code = "QueryFeatureNotAllowed"

(***************************************************************************)
(* Properties of WindowBounds::parse.                                      *)
(***************************************************************************)
WindowParsed == fPc = "done" /\ fCall.fn = "WindowBounds::parse"

NoBoundsGiven ==
    /\ ~ fCall.args.documents.present
    /\ ~ fCall.args.range.present
    /\ ~ fCall.args.unit.present

\* C24: for arguments with neither 'documents' nor 'range' (and no 'unit'),
\* WindowBounds::parse returns document-based bounds from unbounded to unbounded.
C24_DefaultBounds ==
    WindowParsed /\ NoBoundsGiven =>
        /\ fRes.ok
        /\ fRes.bounds.kind = "DocumentBased"
        /\ fRes.bounds.lower = Unbounded
        /\ fRes.bounds.upper = Unbounded

C24_Witness ==
    /\ WindowParsed
    /\ NoBoundsGiven
    /\ fRes = DocumentBased(Unbounded, Unbounded)

(***************************************************************************)
(* Properties of ReplicaSetConfig::initialize.                             *)
(***************************************************************************)
Initialized == fCall.fn = "initialize" /\ fRes.calls >= 1 /\ fRes.now.status = "OK"

NonArbiters(members) == Cardinality({ k \in 1..Len(members) : ~ members[k].arbiter })

\* C27: after a successful initialize with n members of which r are not
\* arbiters, the majority number is min(floor(n/2) + 1, r), and so at most r.
C27_MajorityNumber ==
    Initialized =>
        LET n == Len(fRes.now.config.members)
            r == NonArbiters(fRes.now.config.members)
        IN  /\ n = Len(fCall.cfg.members)
            /\ fRes.now.config.majorityNumber = Min(n \div 2 + 1, r)
            /\ fRes.now.config.majorityNumber <= r

\* Three members, two of them arbiters: the majority is the one normal member.
C27_Witness ==
    /\ Initialized
    /\ Len(fRes.now.config.members) = 3
    /\ NonArbiters(fRes.now.config.members) = 1
    /\ fRes.now.config.majorityNumber = 1

\* C29: a second initialize with the configuration the first call accepted
\* returns OK too and leaves the same members and custom write-concern modes.
C29_InitializeTwice ==
    fCall.fn = "initialize" /\ fRes.calls = 2 /\ fRes.first.status = "OK" =>
        /\ fRes.now.status = "OK"
        /\ fRes.now.config.members = fRes.first.config.members
        /\ fRes.now.config.customWriteConcernModes
               = fRes.first.config.customWriteConcernModes

====
